---- MODULE Spec2Model ----
(***************************************************************************)
(* Model of the deferred Firebase module loader (dataPromises, the         *)
(* activation gates, getAuthModule / getAnalyticsModule, getCurrentUser)   *)
(* and of the IndexedDB karma accessor (storeKarma / readKarma).           *)
(*                                                                         *)
(* Execution is the JavaScript event loop: every action below is one       *)
(* synchronous run-to-completion segment (a call up to its first await, or *)
(* the continuation of an await / then).                                   *)
(***************************************************************************)
EXTENDS Integers, Sequences, FiniteSets, TLC

\* ------------------------------------------------------------------ bounds
MaxCalls == 4                \* calls of the exported loader functions
MaxKarma == 2                \* karma values range over -MaxKarma..MaxKarma

\* ------------------------------------------------------------------- state
VARIABLES
  dataPromises,   \* the three slots; 0 is null, n > 0 is the promise's identity
  promises,       \* promises[n]: status and settled value of promise n
  listeners,      \* EventBus subscriptions per event name
  appTasks,       \* runs of the resolveFirebase listener body
  authTasks,      \* invocations of loadFirebaseAuth()
  anTasks,        \* runs of the resolveAnalytics listener body
  counts,         \* call counters of the observable primitives
  cons,           \* consumer calls (getAuth, signOut, getCurrentUser)
  logs,           \* analyticsLogger calls
  production,     \* process.env.NODE_ENV === "production"
  userLoaded,     \* module-level flag of getCurrentUser
  currentUser,    \* auth.currentUser of the provider
  activeSubs,     \* consumers holding an auth-state subscription
  userDB,         \* the "userLocalStorageDb" IndexedDB database
  karmaCall,      \* the storeKarma/readKarma call in progress
  karmaHist,      \* what the completed karma calls did
  firebaseDB,     \* the "firebaseLocalStorageDb" IndexedDB database
  credsCall       \* the readCreds() call in progress and its outcome

loaderVars == <<dataPromises, promises, listeners, appTasks, authTasks, anTasks, counts>>
callVars == <<cons, logs, production>>
userVars == <<userLoaded, currentUser, activeSubs>>
karmaVars == <<userDB, karmaCall, karmaHist>>
credsVars == <<firebaseDB, credsCall>>
vars == <<dataPromises, promises, listeners, appTasks, authTasks, anTasks, counts,
          cons, logs, production, userLoaded, currentUser, activeSubs,
          userDB, karmaCall, karmaHist, firebaseDB, credsCall>>

Users == {"null", "user"}
ConsumerKinds == {"getAuth", "signOut", "getCurrentUser"}
KarmaValues == (0 - MaxKarma)..MaxKarma

\* ---------------------------------------------------------------- promises
PendingPromise == [status |-> "pending", value |-> 0]

\* resolve(v): settles a pending promise, no effect on a settled one
ResolvePromise(ps, p, v) ==
  IF ps[p].status = "pending"
  THEN [ps EXCEPT ![p] = [status |-> "resolved", value |-> v]]
  ELSE ps

\* await x continues when x is not a promise (null) or x is resolved
Awaitable(p) == IF p = 0 THEN TRUE ELSE promises[p].status = "resolved"

\* ---------------------------------------------------------------- EventBus
\* EventBus.$on(name, fn, once): subscribe fn, once-only when once is TRUE
EventBusOn(ls, name, p, once) ==
  [ls EXCEPT ![name] = Append(@, [promise |-> p, once |-> once])]

\* the listeners EventBus.$emit(name) runs, in subscription order
EventBusFired(ls, name) == ls[name]

\* EventBus.$emit(name): once-only listeners are dropped after they ran
EventBusEmit(ls, name) ==
  [ls EXCEPT ![name] = SelectSeq(@, LAMBDA l : ~l.once)]

\* ------------------------------------------------------------------- Init
EmptyStore == [k \in {} |-> 0]

\* a failure value, an Error or not; messages are token sequences
NoFailure == [isError |-> FALSE, kind |-> "none", message |-> <<>>]

\* the database before anything opened it
NoDatabase == [version |-> 0, stores |-> {}, rows |-> <<>>]

IdleCredsCall ==
  [pc |-> "idle", rows |-> <<>>, result |-> [token |-> "", uid |-> ""],
   raised |-> NoFailure, error |-> NoFailure, opens |-> 0]

\* the state of the loader, the user flag and the karma accessor at start
CoreInit ==
  /\ dataPromises = [firebaseApp |-> 0, authModule |-> 0, analyticsModule |-> 0]
  /\ promises = <<>>
  /\ listeners = [resolveFirebase |-> <<>>, resolveAnalytics |-> <<>>]
  /\ appTasks = <<>>
  /\ authTasks = <<>>
  /\ anTasks = <<>>
  /\ counts = [initApp |-> 0, fbEmits |-> 0, appImports |-> 0, appInits |-> 0,
               authLoads |-> 0, authImports |-> 0,
               anLoads |-> 0, anEmits |-> 0, anRuns |-> 0, anImports |-> 0,
               subs |-> 0, logEvents |-> 0]
  /\ cons = <<>>
  /\ logs = <<>>
  /\ production \in BOOLEAN
  /\ userLoaded = FALSE
  /\ currentUser \in Users
  /\ activeSubs = {}
  /\ userDB = [version |-> 0, stores |-> {}, userInfo |-> EmptyStore]
  /\ karmaCall = [pc |-> "idle", arg |-> 0]
  /\ karmaHist = [last |-> "none", result |-> 0, stored |-> FALSE, value |-> 0]

Init ==
  /\ CoreInit
  /\ firebaseDB = NoDatabase
  /\ credsCall = IdleCredsCall

\* ------------------------------------------------------------- the loader
\* initializeApp(): a new pending promise whose resolver is subscribed,
\* once-only, to "resolveFirebase"
InitializeAppOnce_Persistent == FALSE

InitializeAppOnce == TRUE

InitializeApp_NoSubscribe(st) ==
  [st EXCEPT
     !.promises = Append(@, PendingPromise),
     !.counts.initApp = @ + 1,
     !.dataPromises.firebaseApp = Len(st.promises) + 1]

InitializeApp(st) ==
  [st EXCEPT
     !.promises = Append(@, PendingPromise),
     !.listeners = EventBusOn(@, "resolveFirebase", Len(st.promises) + 1, InitializeAppOnce),
     !.counts.initApp = @ + 1,
     !.dataPromises.firebaseApp = Len(st.promises) + 1]

\* the body of the resolveFirebase listener up to import("firebase/app")
RunFirebaseListeners(st, fired) ==
  [st EXCEPT
     !.appTasks = @ \o [i \in 1..Len(fired) |->
                          [promise |-> fired[i].promise, pc |-> "importing"]],
     !.counts.appImports = @ + Len(fired)]

\* loadFirebaseAnalytics(): a new pending promise whose resolver is subscribed
\* (no once flag) to "resolveAnalytics"
LoadFirebaseAnalytics(st) ==
  [st EXCEPT
     !.promises = Append(@, PendingPromise),
     !.listeners = EventBusOn(@, "resolveAnalytics", Len(st.promises) + 1, FALSE),
     !.counts.anLoads = @ + 1,
     !.dataPromises.analyticsModule = Len(st.promises) + 1]

\* the body of the resolveAnalytics listener up to `await dataPromises.firebaseApp`:
\* the awaited value is the slot's content when the listener runs
RunAnalyticsListeners(st, fired) ==
  [st EXCEPT
     !.anTasks = @ \o [i \in 1..Len(fired) |->
                         [promise |-> fired[i].promise,
                          waitApp |-> st.dataPromises.firebaseApp,
                          pc |-> "awaitApp"]],
     !.counts.anRuns = @ + Len(fired)]

LoadFirebaseAuth_NoAwait(st) ==
  [st EXCEPT
     !.promises = Append(@, PendingPromise),
     !.authTasks = Append(@, [promise |-> Len(st.promises) + 1,
                              waitApp |-> 0,
                              pc |-> "awaitApp", imp |-> 0]),
     !.counts.authLoads = @ + 1,
     !.dataPromises.authModule = Len(st.promises) + 1]

\* loadFirebaseAuth() up to `await dataPromises.firebaseApp`
LoadFirebaseAuth(st) ==
  [st EXCEPT
     !.promises = Append(@, PendingPromise),
     !.authTasks = Append(@, [promise |-> Len(st.promises) + 1,
                              waitApp |-> st.dataPromises.firebaseApp,
                              pc |-> "awaitApp", imp |-> 0]),
     !.counts.authLoads = @ + 1,
     !.dataPromises.authModule = Len(st.promises) + 1]

\* the loader state as one record, so that the helpers above compose
LoaderState ==
  [dataPromises |-> dataPromises, promises |-> promises, listeners |-> listeners,
   appTasks |-> appTasks, authTasks |-> authTasks, anTasks |-> anTasks,
   counts |-> counts]

SetLoaderState(st) ==
  /\ dataPromises' = st.dataPromises
  /\ promises' = st.promises
  /\ listeners' = st.listeners
  /\ appTasks' = st.appTasks
  /\ authTasks' = st.authTasks
  /\ anTasks' = st.anTasks
  /\ counts' = st.counts

MakeFirebaseActiveGuard_Always == TRUE

\* the calls of exported functions made so far
CallsMade == counts.fbEmits + counts.anEmits + Len(cons) + Len(logs)

\* makeFirebaseActive(): `if (dataPromises.firebaseApp === null)`
MakeFirebaseActiveGuard == dataPromises.firebaseApp = 0

MakeFirebaseActive ==
  /\ CallsMade < MaxCalls
  /\ LET s1 == IF MakeFirebaseActiveGuard THEN InitializeApp(LoaderState) ELSE LoaderState
         s2 == RunFirebaseListeners(s1, EventBusFired(s1.listeners, "resolveFirebase"))
         s3 == [s2 EXCEPT !.listeners = EventBusEmit(@, "resolveFirebase"),
                          !.counts.fbEmits = @ + 1]
     IN SetLoaderState(s3)
  /\ UNCHANGED <<callVars, userVars, karmaVars, credsVars>>

\* import("firebase/app").then(...): appModule.initializeApp(config); resolve(app)
AppImported(t) ==
  /\ t \in DOMAIN appTasks
  /\ appTasks[t].pc = "importing"
  /\ appTasks' = [appTasks EXCEPT ![t].pc = "done"]
  /\ counts' = [counts EXCEPT !.appInits = @ + 1]
  /\ promises' = ResolvePromise(promises, appTasks[t].promise, counts.appInits + 1)
  /\ UNCHANGED <<dataPromises, listeners, authTasks, anTasks, callVars, userVars, karmaVars, credsVars>>

\* loadFirebaseAuth(): continuation of `await dataPromises.firebaseApp`,
\* starts import("firebase/auth")
AuthLoadResume(t) ==
  /\ t \in DOMAIN authTasks
  /\ authTasks[t].pc = "awaitApp"
  /\ Awaitable(authTasks[t].waitApp)
  /\ authTasks' = [authTasks EXCEPT ![t].pc = "importing",
                                    ![t].imp = counts.authImports + 1]
  /\ counts' = [counts EXCEPT !.authImports = @ + 1]
  /\ UNCHANGED <<dataPromises, promises, listeners, appTasks, anTasks,
                 callVars, userVars, karmaVars, credsVars>>

\* loadFirebaseAuth(): `return authModule`; the handle is named after the
\* import that produced it
AuthLoadImported(t) ==
  /\ t \in DOMAIN authTasks
  /\ authTasks[t].pc = "importing"
  /\ authTasks' = [authTasks EXCEPT ![t].pc = "done"]
  /\ promises' = ResolvePromise(promises, authTasks[t].promise, authTasks[t].imp)
  /\ UNCHANGED <<dataPromises, listeners, appTasks, anTasks, counts,
                 callVars, userVars, karmaVars, credsVars>>

\* makeAnalyticsActive(): `if (dataPromises.analyticsModule === null)`
MakeAnalyticsActive ==
  /\ CallsMade < MaxCalls
  /\ LET s1 == IF dataPromises.analyticsModule = 0
               THEN LoadFirebaseAnalytics(LoaderState) ELSE LoaderState
         s2 == RunAnalyticsListeners(s1, EventBusFired(s1.listeners, "resolveAnalytics"))
         s3 == [s2 EXCEPT !.listeners = EventBusEmit(@, "resolveAnalytics"),
                          !.counts.anEmits = @ + 1]
     IN SetLoaderState(s3)
  /\ UNCHANGED <<callVars, userVars, karmaVars, credsVars>>

\* resolveAnalytics listener: continuation of `await dataPromises.firebaseApp`,
\* starts import("firebase/analytics")
AnalyticsListenerResume(t) ==
  /\ t \in DOMAIN anTasks
  /\ anTasks[t].pc = "awaitApp"
  /\ Awaitable(anTasks[t].waitApp)
  /\ anTasks' = [anTasks EXCEPT ![t].pc = "importing"]
  /\ counts' = [counts EXCEPT !.anImports = @ + 1]
  /\ UNCHANGED <<dataPromises, promises, listeners, appTasks, authTasks,
                 callVars, userVars, karmaVars, credsVars>>

\* resolveAnalytics listener: resolve(analyticsModule)
AnalyticsListenerImported(t) ==
  /\ t \in DOMAIN anTasks
  /\ anTasks[t].pc = "importing"
  /\ anTasks' = [anTasks EXCEPT ![t].pc = "done"]
  /\ promises' = ResolvePromise(promises, anTasks[t].promise, 1)
  /\ UNCHANGED <<dataPromises, listeners, appTasks, authTasks, counts,
                 callVars, userVars, karmaVars, credsVars>>

\* ------------------------------------------------------ getAuthModule()
AuthModuleCached_Never(st) == FALSE

\* `if (dataPromises.authModule !== null)`
AuthModuleCached(st) == st.dataPromises.authModule # 0

\* getAuthModule() from the second `if` on: return the memoized auth promise,
\* or create it with loadFirebaseAuth() and return it through the recursive call
GetAuthModuleTail(st) ==
  IF AuthModuleCached(st)
  THEN [st |-> st, pc |-> "awaitAuth", wait |-> st.dataPromises.authModule, created |-> FALSE]
  ELSE [st |-> LoadFirebaseAuth(st), pc |-> "awaitAuth",
        wait |-> Len(st.promises) + 1, created |-> FALSE]

\* getAuthModule() up to its first suspension
GetAuthModule(st) ==
  IF st.dataPromises.firebaseApp = 0
  THEN [st |-> InitializeApp(st), pc |-> "awaitApp",
        wait |-> Len(st.promises) + 1, created |-> TRUE]
  ELSE GetAuthModuleTail(st)

\* what a call has constructed: nothing yet
NoResult == [class |-> "none", made |-> "none", token |-> "none"]

IsCurrentUserCall(i) == cons[i].kind = "getCurrentUser"

\* the consumer calls that have not settled yet
PendingCalls == {i \in DOMAIN cons : cons[i].pc \notin {"done", "rejected"}}

\* getCurrentUser(): `if (userLoaded)` picks the branch when the call is made
CurrentUserMode(kind) ==
  IF kind = "getCurrentUser"
  THEN (IF userLoaded THEN "read" ELSE "subscribe")
  ELSE "none"

\* a consumer call (getAuth, signOut, getCurrentUser) up to its suspension
\* inside getAuthModule()
ConsumerCall(kind) ==
  /\ CallsMade < MaxCalls
  /\ LET r == GetAuthModule(LoaderState)
     IN /\ SetLoaderState(r.st)
        /\ cons' = Append(cons, [kind |-> kind, pc |-> r.pc, wait |-> r.wait,
                                 created |-> r.created, handle |-> 0,
                                 mode |-> CurrentUserMode(kind), user |-> "none",
                                 subscribed |-> FALSE,
                                 pendingAtCall |-> PendingCalls,
                                 provider |-> "none", token |-> "none",
                                 result |-> NoResult, error |-> <<>>])
  /\ UNCHANGED <<logs, production, userVars, karmaVars, credsVars>>

\* getAuthModule(): continuation of `await dataPromises.firebaseApp`
ConsumerResumeApp(i) ==
  /\ i \in DOMAIN cons
  /\ cons[i].pc = "awaitApp"
  /\ Awaitable(cons[i].wait)
  /\ LET r == GetAuthModuleTail(LoaderState)
     IN /\ SetLoaderState(r.st)
        /\ cons' = [cons EXCEPT ![i].pc = r.pc, ![i].wait = r.wait]
  /\ UNCHANGED <<logs, production, userVars, karmaVars, credsVars>>

SetUserLoaded_Missing == FALSE

\* auth.onAuthStateChanged callback of getCurrentUser(): `userLoaded = true`
SetUserLoaded == TRUE

\* signOut(): authModule.signOut(auth) leaves no user signed in
SignedOutUser == "null"

UserLoadedAfterSignOut_Reset(loaded) == FALSE

\* signOut() forwards to the provider and does not touch userLoaded
UserLoadedAfterSignOut(loaded) == loaded

\* the auth promise is resolved: the consumer gets the module handle and
\* forwards its call to the provider
ConsumerGotModule(i) ==
  /\ i \in DOMAIN cons
  /\ cons[i].kind \in ConsumerKinds
  /\ cons[i].pc = "awaitAuth"
  /\ Awaitable(cons[i].wait)
  /\ LET h == promises[cons[i].wait].value
     IN CASE cons[i].kind = "getAuth" ->
               /\ cons' = [cons EXCEPT ![i].pc = "done", ![i].handle = h]
               /\ UNCHANGED <<counts, userVars>>
          [] cons[i].kind = "signOut" ->
               /\ cons' = [cons EXCEPT ![i].pc = "done", ![i].handle = h]
               /\ currentUser' = SignedOutUser
               /\ userLoaded' = UserLoadedAfterSignOut(userLoaded)
               /\ UNCHANGED <<counts, activeSubs>>
          [] cons[i].kind = "getCurrentUser" /\ cons[i].mode = "read" ->
               /\ cons' = [cons EXCEPT ![i].pc = "done", ![i].handle = h,
                                       ![i].user = currentUser]
               /\ UNCHANGED <<counts, userVars>>
          [] cons[i].kind = "getCurrentUser" /\ cons[i].mode = "subscribe" ->
               /\ cons' = [cons EXCEPT ![i].pc = "subscribed", ![i].handle = h,
                                       ![i].subscribed = TRUE]
               /\ counts' = [counts EXCEPT !.subs = @ + 1]
               /\ activeSubs' = activeSubs \cup {i}
               /\ UNCHANGED <<userLoaded, currentUser>>
  /\ UNCHANGED <<dataPromises, promises, listeners, appTasks, authTasks, anTasks,
                 logs, production, karmaVars, credsVars>>

Unsubscribe_Leak(subs, i) == subs

\* `unsubscribe()` inside the onAuthStateChanged callback
Unsubscribe(subs, i) == subs \ {i}

\* the provider delivers the auth state to a getCurrentUser subscription:
\* userLoaded = true; unsubscribe(); resolveUser(user)
DeliverAuthState(i) ==
  /\ i \in activeSubs
  /\ userLoaded' = (IF SetUserLoaded THEN TRUE ELSE userLoaded)
  /\ activeSubs' = Unsubscribe(activeSubs, i)
  /\ cons' = [cons EXCEPT ![i].pc = "done", ![i].user = currentUser]
  /\ UNCHANGED <<loaderVars, logs, production, currentUser, karmaVars, credsVars>>

\* --------------------------------------------- getAnalyticsModule()
GetAnalyticsModuleTail(st) ==
  IF st.dataPromises.analyticsModule # 0
  THEN [st |-> st, pc |-> "awaitAnalytics", wait |-> st.dataPromises.analyticsModule]
  ELSE [st |-> LoadFirebaseAnalytics(st), pc |-> "awaitAnalytics",
        wait |-> Len(st.promises) + 1]

GetAnalyticsModule(st) ==
  IF st.dataPromises.firebaseApp = 0
  THEN [st |-> InitializeApp(st), pc |-> "awaitApp", wait |-> Len(st.promises) + 1]
  ELSE GetAnalyticsModuleTail(st)

LoggerEnabled_Always == TRUE

\* analyticsLogger(): `if (process.env.NODE_ENV !== "production") return;`
LoggerEnabled == production

\* analyticsLogger(): returns at once outside production, otherwise
\* getAnalyticsModule() up to its first suspension
AnalyticsLogger ==
  /\ CallsMade < MaxCalls
  /\ IF ~LoggerEnabled
     THEN /\ logs' = Append(logs, [pc |-> "skipped", wait |-> 0])
          /\ UNCHANGED loaderVars
     ELSE LET r == GetAnalyticsModule(LoaderState)
          IN /\ SetLoaderState(r.st)
             /\ logs' = Append(logs, [pc |-> r.pc, wait |-> r.wait])
  /\ UNCHANGED <<cons, production, userVars, karmaVars, credsVars>>

\* getAnalyticsModule(): continuation of `await dataPromises.firebaseApp`
LoggerResumeApp(j) ==
  /\ j \in DOMAIN logs
  /\ logs[j].pc = "awaitApp"
  /\ Awaitable(logs[j].wait)
  /\ LET r == GetAnalyticsModuleTail(LoaderState)
     IN /\ SetLoaderState(r.st)
        /\ logs' = [logs EXCEPT ![j].pc = r.pc, ![j].wait = r.wait]
  /\ UNCHANGED <<cons, production, userVars, karmaVars, credsVars>>

\* analyticsLogger(): .then(analyticsModule => analyticsModule.logEvent(...))
LoggerGotModule(j) ==
  /\ j \in DOMAIN logs
  /\ logs[j].pc = "awaitAnalytics"
  /\ Awaitable(logs[j].wait)
  /\ logs' = [logs EXCEPT ![j].pc = "logged"]
  /\ counts' = [counts EXCEPT !.logEvents = @ + 1]
  /\ UNCHANGED <<dataPromises, promises, listeners, appTasks, authTasks, anTasks,
                 cons, production, userVars, karmaVars, credsVars>>

\* ------------------------------------------------- the specification
Next ==
  \/ MakeFirebaseActive
  \/ MakeAnalyticsActive
  \/ \E kind \in ConsumerKinds : ConsumerCall(kind)
  \/ AnalyticsLogger
  \/ \E t \in 1..MaxCalls : AppImported(t)
  \/ \E t \in 1..MaxCalls : AuthLoadResume(t)
  \/ \E t \in 1..MaxCalls : AuthLoadImported(t)
  \/ \E t \in 1..MaxCalls : AnalyticsListenerResume(t)
  \/ \E t \in 1..MaxCalls : AnalyticsListenerImported(t)
  \/ \E i \in 1..MaxCalls : ConsumerResumeApp(i)
  \/ \E i \in 1..MaxCalls : ConsumerGotModule(i)
  \/ \E i \in 1..MaxCalls : DeliverAuthState(i)
  \/ \E j \in 1..MaxCalls : LoggerResumeApp(j)
  \/ \E j \in 1..MaxCalls : LoggerGotModule(j)

Spec == Init /\ [][Next]_vars

\* ------------------------------------------------- the karma accessor
\* openDB(USER_DB_NAME, 1, {upgrade}): the upgrade callback runs only when the
\* database does not exist yet, and creates the "userInfo" object store
GetUserDB(db) ==
  IF db.version = 0
  THEN [version |-> 1, stores |-> {"userInfo"}, userInfo |-> EmptyStore]
  ELSE db

\* db.put(store, value, key): insert or overwrite
DBPut(store, key, v) ==
  [k \in DOMAIN store \cup {key} |-> IF k = key THEN v ELSE store[k]]

\* the key storeKarma() writes
StoreKarmaKey_Typo == "Karma"

StoreKarmaKey == "karma"

\* the key readKarma() reads
ReadKarmaKey == "karma"

\* `karma || 0` on the outcome of db.get(store, key): 0 for a missing key
\* (undefined) and for a falsy number
KarmaOrZero(store, key) ==
  IF key \notin DOMAIN store THEN 0
  ELSE IF store[key] = 0 THEN 0
  ELSE store[key]

\* storeKarma(karma): `await getUserDB()`
StoreKarmaOpen(v) ==
  /\ karmaCall.pc = "idle"
  /\ userDB' = GetUserDB(userDB)
  /\ karmaCall' = [pc |-> "storePut", arg |-> v]
  /\ UNCHANGED <<karmaHist, loaderVars, callVars, userVars, credsVars>>

\* storeKarma(karma): `await db.put("userInfo", karma, "karma")`
StoreKarmaPut ==
  /\ karmaCall.pc = "storePut"
  /\ "userInfo" \in userDB.stores
  /\ userDB' = [userDB EXCEPT !.userInfo = DBPut(@, StoreKarmaKey, karmaCall.arg)]
  /\ karmaCall' = [pc |-> "idle", arg |-> 0]
  /\ karmaHist' = [karmaHist EXCEPT !.last = "store", !.stored = TRUE,
                                    !.value = karmaCall.arg]
  /\ UNCHANGED <<loaderVars, callVars, userVars, credsVars>>

\* readKarma(): `await getUserDB()`
ReadKarmaOpen ==
  /\ karmaCall.pc = "idle"
  /\ userDB' = GetUserDB(userDB)
  /\ karmaCall' = [pc |-> "readGet", arg |-> 0]
  /\ UNCHANGED <<karmaHist, loaderVars, callVars, userVars, credsVars>>

\* readKarma(): `await db.get("userInfo", "karma")`, `return karma || 0`
ReadKarmaGet ==
  /\ karmaCall.pc = "readGet"
  /\ "userInfo" \in userDB.stores
  /\ karmaCall' = [pc |-> "idle", arg |-> 0]
  /\ karmaHist' = [karmaHist EXCEPT !.last = "read",
                                    !.result = KarmaOrZero(userDB.userInfo, ReadKarmaKey)]
  /\ UNCHANGED <<userDB, loaderVars, callVars, userVars, credsVars>>

KarmaNext ==
  \/ \E v \in KarmaValues : StoreKarmaOpen(v)
  \/ StoreKarmaPut
  \/ ReadKarmaOpen
  \/ ReadKarmaGet

KarmaSpec == Init /\ [][KarmaNext]_vars

\* the event loop runs every ready continuation and the imports succeed;
\* nothing obliges the application to call the exported functions
Fairness ==
  /\ WF_vars(\E t \in 1..MaxCalls : AppImported(t))
  /\ WF_vars(\E t \in 1..MaxCalls : AuthLoadResume(t))
  /\ WF_vars(\E t \in 1..MaxCalls : AuthLoadImported(t))
  /\ WF_vars(\E i \in 1..MaxCalls : ConsumerResumeApp(i))
  /\ WF_vars(\E i \in 1..MaxCalls : ConsumerGotModule(i))

FairSpec == Init /\ [][Next]_vars /\ Fairness

\* ------------------------------------------------------------ the claims
AppSlotResolved ==
  /\ dataPromises.firebaseApp # 0
  /\ promises[dataPromises.firebaseApp].status = "resolved"

AuthSlotResolved ==
  /\ dataPromises.authModule # 0
  /\ promises[dataPromises.authModule].status = "resolved"

AnalyticsSlotResolved ==
  /\ dataPromises.analyticsModule # 0
  /\ promises[dataPromises.analyticsModule].status = "resolved"

\* the call has come back from getAuthModule() with the module handle
GotModule(i) == i \in DOMAIN cons /\ cons[i].pc \in {"subscribed", "done"}

\* C1: once makeFirebaseActive() has been called twice or more, there has been
\* exactly one initializeApp() promise, exactly one run of the resolveFirebase
\* listener (one import of the app module) and at most one
\* appModule.initializeApp(config) call, made when that import completes.
C1_SingleAppImport ==
  counts.fbEmits >= 2 =>
    /\ counts.initApp = 1
    /\ counts.appImports = 1
    /\ Len(appTasks) = 1
    /\ counts.appInits = (IF appTasks[1].pc = "done" THEN 1 ELSE 0)

C1_Witness ==
  /\ counts.fbEmits >= 2
  /\ cons = <<>> /\ logs = <<>>
  /\ counts.appImports = 1
  /\ counts.appInits = 1

\* C2: whatever the interleaving of consumer calls and makeFirebaseActive(),
\* initializeApp() and loadFirebaseAuth() are each invoked at most once, the
\* auth module is imported at most once, and all consumers that got the
\* module got the same handle.
C2_AtMostOneLoad ==
  /\ counts.initApp <= 1
  /\ counts.authLoads <= 1
  /\ counts.authImports <= 1
  /\ \A i, j \in DOMAIN cons :
       (cons[i].handle # 0 /\ cons[j].handle # 0) => cons[i].handle = cons[j].handle
  /\ \A i \in DOMAIN cons : GotModule(i) => cons[i].handle # 0

C2_Witness ==
  /\ Len(cons) >= 2
  /\ 1 \in cons[2].pendingAtCall
  /\ cons[1].handle # 0
  /\ cons[2].handle # 0
  /\ counts.fbEmits >= 1

\* C3 (as claimed): the resolveAnalytics listener body runs at most once, so
\* the analytics module is imported at most once.
C3_AnalyticsListenerRunsOnce ==
  /\ counts.anRuns <= 1
  /\ counts.anImports <= 1

\* C6 (as claimed): a run of the resolveAnalytics listener starts the import
\* of the analytics module only when the app promise has resolved.
C6_AnalyticsImportAfterApp ==
  \A t \in DOMAIN anTasks :
    anTasks[t].pc \in {"importing", "done"} => AppSlotResolved

\* C7: a dataPromises slot that holds a promise keeps that very promise, a
\* slot is filled with a fresh pending promise, and a resolved promise stays
\* resolved with the same value.
C7_SlotsMonotonic ==
  [][ /\ \A slot \in {"firebaseApp", "authModule", "analyticsModule"} :
           /\ dataPromises[slot] # 0 => dataPromises'[slot] = dataPromises[slot]
           /\ (dataPromises[slot] = 0 /\ dataPromises'[slot] # 0) =>
                /\ dataPromises'[slot] \notin DOMAIN promises
                /\ promises'[dataPromises'[slot]].status = "pending"
      /\ \A p \in DOMAIN promises :
           /\ p \in DOMAIN promises'
           /\ promises[p].status = "resolved" => promises'[p] = promises[p] ]_vars

C7_Witness ==
  /\ AppSlotResolved
  /\ AuthSlotResolved
  /\ AnalyticsSlotResolved
  /\ counts.fbEmits >= 2

\* a consumer call is made when the app and the auth promises are resolved
CallAfterResolved ==
  /\ Len(cons') = Len(cons) + 1
  /\ AppSlotResolved
  /\ AuthSlotResolved

\* C4: no consumer gets the module before makeFirebaseActive() has been
\* called; once it has been called, again and again every consumer call made
\* so far has got the module (a call keeps the module it got, so each call
\* eventually gets it); a consumer call made when the
\* app and auth promises are resolved waits on the memoized auth promise
\* only, leaves the loader untouched and gets the cached handle.
C4_BlockedUntilActivation ==
  /\ [](\A i \in DOMAIN cons : GotModule(i) => counts.fbEmits > 0)
  /\ []<>(counts.fbEmits > 0 => \A i \in DOMAIN cons : GotModule(i))
  /\ [][CallAfterResolved =>
          /\ cons'[Len(cons')].pc = "awaitAuth"
          /\ cons'[Len(cons')].wait = dataPromises.authModule
          /\ UNCHANGED loaderVars]_vars
  /\ [](\A i \in DOMAIN cons :
          (GotModule(i) /\ AuthSlotResolved) =>
             cons[i].handle = promises[dataPromises.authModule].value)

C4_Witness ==
  /\ Len(cons) >= 2
  /\ cons[1].created
  /\ GotModule(1)
  /\ 1 \notin cons[2].pendingAtCall
  /\ GotModule(2)

\* getAuthModule() is entered with the app promise unset
CallCreatesApp ==
  /\ Len(cons') = Len(cons) + 1
  /\ dataPromises.firebaseApp = 0

\* C5 (as claimed): a consumer call made while the app promise is unset
\* creates the app promise and fires the resolveFirebase activation, that
\* is, the listener body runs and the import of the app module starts.
C5_CallActivates ==
  [][CallCreatesApp =>
       /\ dataPromises'.firebaseApp # 0
       /\ counts'.appImports = counts.appImports + 1]_vars

\* C5 (amended): a consumer call made while the app promise is unset creates
\* the app promise and subscribes its resolver to resolveFirebase without
\* firing the event; it does not get the module as long as
\* makeFirebaseActive() has not been called, and once makeFirebaseActive() has
\* been called the call that created the app promise eventually has the
\* module (and keeps it).
C5_CallCreatesWithoutActivating ==
  /\ [][CallCreatesApp =>
          /\ dataPromises'.firebaseApp # 0
          /\ cons'[Len(cons')].created
          /\ cons'[Len(cons')].wait = dataPromises'.firebaseApp
          /\ \E k \in DOMAIN listeners'.resolveFirebase :
               listeners'.resolveFirebase[k].promise = dataPromises'.firebaseApp
          /\ counts'.fbEmits = counts.fbEmits
          /\ counts'.appImports = counts.appImports]_vars
  /\ [](\A i \in DOMAIN cons :
          (cons[i].created /\ counts.fbEmits = 0) => cons[i].pc = "awaitApp")
  /\ []<>(counts.fbEmits > 0 => \A i \in DOMAIN cons : cons[i].created => GotModule(i))

C5_Witness ==
  /\ Len(cons) >= 1
  /\ cons[1].created
  /\ counts.fbEmits = 1
  /\ cons[1].pc = "done"

CurrentUserCalls == {i \in DOMAIN cons : IsCurrentUserCall(i)}

\* C8: with two getCurrentUser() calls, the second made after the first has
\* resolved, once both have resolved exactly one auth-state subscription has
\* been created: the first call subscribed and resolved with the delivered
\* value, the second took the direct-read branch and did not subscribe.
C8_OneSubscriptionInSequence ==
  \A i, j \in DOMAIN cons :
    ( /\ CurrentUserCalls = {i, j}
      /\ i < j
      /\ i \notin cons[j].pendingAtCall
      /\ cons[j].pc = "done" )
    => /\ counts.subs = 1
       /\ cons[i].subscribed
       /\ cons[i].user \in Users
       /\ cons[j].mode = "read"
       /\ ~cons[j].subscribed
       /\ cons[j].user \in Users

C8_Witness ==
  /\ Len(cons) >= 2
  /\ CurrentUserCalls = {1, 2}
  /\ 1 \notin cons[2].pendingAtCall
  /\ cons[1].pc = "done"
  /\ cons[2].pc = "done"
  /\ counts.subs = 1

\* C9: userLoaded is true exactly when an auth-state value has been delivered
\* to a getCurrentUser() subscription (so it is false initially), and no step
\* takes it back from true to false.
C9_UserLoadedMonotonic ==
  /\ [](userLoaded <=> \E i \in DOMAIN cons : cons[i].subscribed /\ cons[i].pc = "done")
  /\ [][userLoaded => userLoaded']_vars

C9_Witness ==
  /\ userLoaded
  /\ \E i \in DOMAIN cons :
       /\ cons[i].kind = "signOut"
       /\ cons[i].pc = "done"
       /\ cons[i].pendingAtCall = {}
       /\ \E k \in 1..(i - 1) : cons[k].subscribed

\* a step of readKarma()
ReadKarmaStep ==
  \/ karmaCall.pc = "idle" /\ karmaCall'.pc = "readGet"
  \/ karmaCall.pc = "readGet"

\* C10: a completed readKarma() returns the value of the most recent
\* completed storeKarma(v), and 0 when there has been none, and no step of
\* readKarma() changes what the userInfo store holds.
C10_ReadKarmaReturnsLastStored ==
  /\ [](karmaHist.last = "read" =>
          karmaHist.result = (IF karmaHist.stored THEN karmaHist.value ELSE 0))
  /\ [][ReadKarmaStep => userDB'.userInfo = userDB.userInfo]_vars

C10_Witness ==
  /\ karmaHist.last = "read"
  /\ karmaHist.stored
  /\ karmaHist.value = 0 - MaxKarma
  /\ karmaHist.result = 0 - MaxKarma

C10_WitnessZero ==
  /\ karmaHist.last = "read"
  /\ karmaHist.stored
  /\ karmaHist.value = 0
  /\ karmaHist.result = 0

\* ------------------------------------------------------------ readCreds()
MaxRows == 2                 \* records in the firebaseLocalStorage store

\* fbase_key values, as their ":"-separated segments
CredKeys ==
  { <<"firebase", "authUser", "key">>,
    <<"app", "firebase", "authUser">>,
    <<"firebase", "host", "key">>,
    <<"authUser", "firebase">> }

CredUids == {"u1", "u2"}
CredTokens == {"t1", "t2"}

\* a record of the store: {fbase_key, value: {uid, stsTokenManager: {accessToken}}}
CredRows ==
  [fbase_key : CredKeys,
   value : [uid : CredUids, stsTokenManager : [accessToken : CredTokens]]]

RECURSIVE SeqsUpTo(_, _)
SeqsUpTo(S, n) ==
  IF n = 0 THEN {<<>>}
  ELSE LET shorter == SeqsUpTo(S, n - 1)
       IN shorter \cup {Append(q, x) : q \in {r \in shorter : Len(r) = n - 1}, x \in S}

\* the marker "firebase:authUser"
AuthUserMarker == <<"firebase", "authUser">>

\* String.prototype.includes: the marker occurs at some offset of the key
Includes(key, marker) ==
  \E off \in 0..(Len(key) - Len(marker)) :
    \A k \in 1..Len(marker) : key[off + k] = marker[k]

KeyMatches_Prefix(row) ==
  /\ Len(row.fbase_key) >= Len(AuthUserMarker)
  /\ \A k \in 1..Len(AuthUserMarker) : row.fbase_key[k] = AuthUserMarker[k]

\* `obj.fbase_key.includes("firebase:authUser")`
KeyMatches(row) == Includes(row.fbase_key, AuthUserMarker)

\* allRows.filter(...), then the empty result or the fields of filteredRows[0]
CredsOf(allRows) ==
  LET filteredRows == SelectSeq(allRows, KeyMatches)
  IN IF Len(filteredRows) = 0
     THEN [token |-> "", uid |-> ""]
     ELSE [token |-> filteredRows[1].value.stsTokenManager.accessToken,
           uid |-> filteredRows[1].value.uid]

\* failure values an open or a read can end with
DOMError(name) == [isError |-> TRUE, kind |-> "DOMException", message |-> <<name>>]

Failures ==
  { DOMError("AbortError"),
    [isError |-> FALSE, kind |-> "string", message |-> <<"blocked">>],
    [isError |-> FALSE, kind |-> "object", message |-> <<"code">>] }

\* JSON.stringify of a failure value that is no Error: a string is quoted,
\* an object is written with its field
JSONStringify(f) ==
  IF f.kind = "string"
  THEN <<"\"">> \o f.message \o <<"\"">>
  ELSE <<"{", "\"message\"", ":", "\"">> \o f.message \o <<"\"", "}">>

CatchRethrow_AlwaysWrap(f) ==
  [isError |-> TRUE, kind |-> "Error", message |-> JSONStringify(f)]

\* the catch block: `if (error instanceof Error) throw error;
\* throw new Error(JSON.stringify(error))`
CatchRethrow(f) ==
  IF f.isError
  THEN f
  ELSE [isError |-> TRUE, kind |-> "Error", message |-> JSONStringify(f)]

\* openDB(FIREBASE_DB_NAME, 1) without upgrade callback: a database that does
\* not exist is created at version 1 with no object store
GetFirebaseDB(db) ==
  IF db.version = 0 THEN [db EXCEPT !.version = 1] ELSE db

\* readCreds(): `await getFirebaseDB()` succeeds
ReadCredsOpen ==
  /\ credsCall.pc \in {"idle", "returned", "thrown"}
  /\ firebaseDB' = GetFirebaseDB(firebaseDB)
  /\ credsCall' = [IdleCredsCall EXCEPT !.pc = "opened", !.opens = 1]
  /\ UNCHANGED <<loaderVars, callVars, userVars, karmaVars>>

\* readCreds(): `await getFirebaseDB()` rejects with f
ReadCredsOpenFails(f) ==
  /\ credsCall.pc \in {"idle", "returned", "thrown"}
  /\ credsCall' = [IdleCredsCall EXCEPT !.pc = "thrown", !.opens = 1, !.raised = f,
                                        !.error = CatchRethrow(f)]
  /\ UNCHANGED <<firebaseDB, loaderVars, callVars, userVars, karmaVars>>

\* readCreds(): db.transaction("firebaseLocalStorage", "readonly") throws
\* NotFoundError when the database has no such store; otherwise
\* `await store.getAll()` yields the records in store order
ReadCredsGetAll ==
  /\ credsCall.pc = "opened"
  /\ IF "firebaseLocalStorage" \in firebaseDB.stores
     THEN credsCall' = [credsCall EXCEPT !.pc = "read", !.rows = firebaseDB.rows]
     ELSE credsCall' = [credsCall EXCEPT !.pc = "thrown",
                                         !.raised = DOMError("NotFoundError"),
                                         !.error = CatchRethrow(DOMError("NotFoundError"))]
  /\ UNCHANGED <<firebaseDB, loaderVars, callVars, userVars, karmaVars>>

\* readCreds(): `await store.getAll()` rejects with f
ReadCredsGetAllFails(f) ==
  /\ credsCall.pc = "opened"
  /\ "firebaseLocalStorage" \in firebaseDB.stores
  /\ credsCall' = [credsCall EXCEPT !.pc = "thrown", !.raised = f,
                                    !.error = CatchRethrow(f)]
  /\ UNCHANGED <<firebaseDB, loaderVars, callVars, userVars, karmaVars>>

\* readCreds(): filter and return
ReadCredsReturn ==
  /\ credsCall.pc = "read"
  /\ credsCall' = [credsCall EXCEPT !.pc = "returned", !.result = CredsOf(credsCall.rows)]
  /\ UNCHANGED <<firebaseDB, loaderVars, callVars, userVars, karmaVars>>

\* the identity provider's database: never created, or holding its store
\* with any records
CredsInit ==
  /\ CoreInit
  /\ ~production
  /\ currentUser = "null"
  /\ credsCall = IdleCredsCall
  /\ \/ firebaseDB = NoDatabase
     \/ \E rows \in SeqsUpTo(CredRows, MaxRows) :
          firebaseDB = [version |-> 1, stores |-> {"firebaseLocalStorage"}, rows |-> rows]

CredsNext ==
  \/ ReadCredsOpen
  \/ \E f \in Failures : ReadCredsOpenFails(f)
  \/ ReadCredsGetAll
  \/ \E f \in Failures : ReadCredsGetAllFails(f)
  \/ ReadCredsReturn

CredsSpec == CredsInit /\ [][CredsNext]_vars

\* the positions of the records whose key contains the marker
MatchingRows(rows) ==
  {k \in DOMAIN rows : Includes(rows[k].fbase_key, AuthUserMarker)}

\* C11: a readCreds() that returns gives the token and uid of the record at
\* the least position whose fbase_key contains the marker, and two empty
\* strings when no record matches (or the store is empty); no step of
\* readCreds() changes the records of the store.
C11_ReadCredsFirstMatch ==
  /\ [](credsCall.pc = "returned" =>
          LET m == MatchingRows(firebaseDB.rows)
          IN IF m = {}
             THEN credsCall.result = [token |-> "", uid |-> ""]
             ELSE LET first == CHOOSE k \in m : \A j \in m : k <= j
                  IN /\ credsCall.result.token =
                          firebaseDB.rows[first].value.stsTokenManager.accessToken
                     /\ credsCall.result.uid = firebaseDB.rows[first].value.uid)
  /\ [][firebaseDB'.rows = firebaseDB.rows /\ firebaseDB'.stores = firebaseDB.stores]_vars

C11_Witness ==
  /\ credsCall.pc = "returned"
  /\ Len(firebaseDB.rows) = 2
  /\ ~KeyMatches(firebaseDB.rows[1])
  /\ firebaseDB.rows[2].fbase_key = <<"app", "firebase", "authUser">>
  /\ credsCall.result = [token |-> "t2", uid |-> "u1"]

\* the readCreds() call has ended, by a return or by a throw
CredsCallEnded == credsCall.pc \in {"returned", "thrown"}

\* C18 (as claimed): a readCreds() that met no failure of the open or of the
\* read and found no auth-user record, the store itself being absent or
\* not, returns two empty strings and does not throw.
C18_AbsenceNeverThrows ==
  ( /\ CredsCallEnded
    /\ credsCall.raised \notin Failures
    /\ MatchingRows(firebaseDB.rows) = {} )
  => /\ credsCall.pc = "returned"
     /\ credsCall.result = [token |-> "", uid |-> ""]

\* C19: a readCreds() in which the open or the read failed ends with a throw
\* and no result; what it throws is the failure itself when that is an
\* Error, and otherwise a new Error whose message is the JSON serialization
\* of the failure; the database is opened once per call.
C19_FailuresRethrown ==
  /\ credsCall.opens <= 1
  /\ credsCall.raised # NoFailure =>
       /\ credsCall.pc = "thrown"
       /\ credsCall.result = [token |-> "", uid |-> ""]
       /\ credsCall.error.isError
       /\ credsCall.raised.isError => credsCall.error = credsCall.raised
       /\ ~credsCall.raised.isError =>
            /\ credsCall.error.kind = "Error"
            /\ credsCall.error.message = JSONStringify(credsCall.raised)
  /\ credsCall.pc = "thrown" => credsCall.raised # NoFailure

C19_Witness ==
  /\ credsCall.pc = "thrown"
  /\ credsCall.raised = DOMError("AbortError")
  /\ credsCall.error = DOMError("AbortError")
  /\ Len(firebaseDB.rows) > 0

C19_WitnessWrapped ==
  /\ credsCall.pc = "thrown"
  /\ credsCall.raised.kind = "string"
  /\ credsCall.error.message = <<"\"", "blocked", "\"">>

\* analyticsLogger() is called
LoggerCalled == Len(logs') = Len(logs) + 1

\* C13: outside production no analyticsLogger() call ever reaches
\* logEvent, every such call ends at once, and the call leaves the whole
\* loader state (slots, promises, listeners, listener runs, imports) as it is.
C13_LoggerInertOutsideProduction ==
  /\ [](~production =>
          /\ counts.logEvents = 0
          /\ \A j \in DOMAIN logs : logs[j].pc = "skipped")
  /\ [][(LoggerCalled /\ ~production) => UNCHANGED loaderVars]_vars

C13_Witness ==
  /\ ~production
  /\ Len(logs) >= 2
  /\ AnalyticsSlotResolved
  /\ counts.logEvents = 0

\* makeFirebaseActive() is called when the app promise is resolved, or
\* makeAnalyticsActive() when the analytics promise is resolved
ActivationAfterResolution ==
  \/ counts'.fbEmits = counts.fbEmits + 1 /\ AppSlotResolved
  \/ counts'.anEmits = counts.anEmits + 1 /\ AnalyticsSlotResolved

\* C17 (as claimed): an activation call made after its promise has resolved
\* changes no slot and no promise, subscribes no listener, runs no listener
\* body and starts no import.
C17_ActivationNoOpAfterResolution ==
  [][ActivationAfterResolution =>
        /\ UNCHANGED <<dataPromises, promises, listeners, appTasks, authTasks, anTasks>>
        /\ counts'.anRuns = counts.anRuns
        /\ counts'.anImports = counts.anImports
        /\ counts'.appImports = counts.appImports
        /\ counts'.appInits = counts.appInits]_vars

\* no subscription of an earlier getCurrentUser() call had delivered when
\* call i was made, that is, userLoaded was false then
StartedUnloaded(i) ==
  ~\E k \in 1..(i - 1) : cons[k].subscribed /\ k \notin cons[i].pendingAtCall

\* C20: a getCurrentUser() call that has got the auth instance has created a
\* subscription of its own exactly when it was made with userLoaded false;
\* the subscriptions created are as many as those calls, the active ones are
\* those of the calls still waiting for their first delivery, and when every
\* getCurrentUser() call has resolved none is active.
C20_SubscriptionPerUnloadedCall ==
  /\ \A i \in CurrentUserCalls :
       GotModule(i) => (cons[i].subscribed <=> StartedUnloaded(i))
  /\ counts.subs = Cardinality({i \in DOMAIN cons : cons[i].subscribed})
  /\ activeSubs = {i \in DOMAIN cons : cons[i].pc = "subscribed"}
  /\ (\A i \in CurrentUserCalls : cons[i].pc = "done") => activeSubs = {}

C20_Witness ==
  /\ Len(cons) >= 2
  /\ 1 \in cons[2].pendingAtCall
  /\ cons[1].subscribed /\ cons[2].subscribed
  /\ cons[1].pc = "done" /\ cons[2].pc = "done"
  /\ counts.subs = 2
  /\ activeSubs = {}

\* ------------------------------------------------- failing imports and calls
\* a rejection settles a pending promise with the failure as its reason
RejectPromise(ps, p, reason) ==
  IF ps[p].status = "pending"
  THEN [ps EXCEPT ![p] = [status |-> "rejected", value |-> reason]]
  ELSE ps

\* where an import("firebase/app").then(...) chain can fail: the import itself,
\* or appModule.initializeApp(config) inside the then callback
AppFailureStages == {"importFailed", "initFailed"}

\* the resolveFirebase listener's chain fails: it has no catch and the
\* executor took no reject function, so resolve(app) is never reached
AppImportFailed(t, stage) ==
  /\ t \in DOMAIN appTasks
  /\ appTasks[t].pc = "importing"
  /\ appTasks' = [appTasks EXCEPT ![t].pc = stage]
  /\ counts' = [counts EXCEPT !.appInits = IF stage = "initFailed" THEN @ + 1 ELSE @]
  /\ UNCHANGED <<dataPromises, promises, listeners, authTasks, anTasks,
                 callVars, userVars, karmaVars, credsVars>>

\* loadFirebaseAuth(): `await import("firebase/auth")` throws inside the async
\* function, whose promise is the one stored in dataPromises.authModule
AuthImportFailed(t) ==
  /\ t \in DOMAIN authTasks
  /\ authTasks[t].pc = "importing"
  /\ authTasks' = [authTasks EXCEPT ![t].pc = "failed"]
  /\ promises' = RejectPromise(promises, authTasks[t].promise, authTasks[t].imp)
  /\ UNCHANGED <<dataPromises, listeners, appTasks, anTasks, counts,
                 callVars, userVars, karmaVars, credsVars>>

\* getAuthModule() returned a rejected auth promise: `await getAuthModule()`
\* throws in the consumer, whose own promise rejects with the same reason
ConsumerRejected(i) ==
  /\ i \in DOMAIN cons
  /\ cons[i].pc = "awaitAuth"
  /\ promises[cons[i].wait].status = "rejected"
  /\ cons' = [cons EXCEPT ![i].pc = "rejected"]
  /\ UNCHANGED <<loaderVars, logs, production, userVars, karmaVars, credsVars>>

\* the resolveAnalytics listener: `await import("firebase/analytics")` throws
\* inside the async listener; the promise of loadFirebaseAnalytics() was built
\* with `new Promise((resolve) => ...)` and is not settled by it
AnalyticsImportFailed(t) ==
  /\ t \in DOMAIN anTasks
  /\ anTasks[t].pc = "importing"
  /\ anTasks' = [anTasks EXCEPT ![t].pc = "failed"]
  /\ UNCHANGED <<dataPromises, promises, listeners, appTasks, authTasks, counts,
                 callVars, userVars, karmaVars, credsVars>>

\* analyticsLogger(): analyticsModule.logEvent(...) throws inside the then callback
LoggerLogFailed(j) ==
  /\ j \in DOMAIN logs
  /\ logs[j].pc = "awaitAnalytics"
  /\ Awaitable(logs[j].wait)
  /\ logs' = [logs EXCEPT ![j].pc = "logFailed"]
  /\ counts' = [counts EXCEPT !.logEvents = @ + 1]
  /\ UNCHANGED <<dataPromises, promises, listeners, appTasks, authTasks, anTasks,
                 cons, production, userVars, karmaVars, credsVars>>

\* analyticsLogger(): .catch(err => console.log("Analytics couldn't be loaded", err))
LoggerCatch(j) ==
  /\ j \in DOMAIN logs
  /\ logs[j].pc = "logFailed"
  /\ logs' = [logs EXCEPT ![j].pc = "caught"]
  /\ UNCHANGED <<loaderVars, cons, production, userVars, karmaVars, credsVars>>

FailNext ==
  \/ Next
  \/ \E t \in 1..MaxCalls, stage \in AppFailureStages : AppImportFailed(t, stage)
  \/ \E t \in 1..MaxCalls : AuthImportFailed(t)
  \/ \E i \in 1..MaxCalls : ConsumerRejected(i)
  \/ \E t \in 1..MaxCalls : AnalyticsImportFailed(t)
  \/ \E j \in 1..MaxCalls : LoggerLogFailed(j)
  \/ \E j \in 1..MaxCalls : LoggerCatch(j)

FailSpec == Init /\ [][FailNext]_vars

\* the load that was to settle promise p has failed
AppLoadFailed(p) ==
  \E t \in DOMAIN appTasks : appTasks[t].promise = p /\ appTasks[t].pc \in AppFailureStages

AuthLoadFailed(p) ==
  \E t \in DOMAIN authTasks : authTasks[t].promise = p /\ authTasks[t].pc = "failed"

AnalyticsLoadFailed(p) ==
  \E t \in DOMAIN anTasks : anTasks[t].promise = p /\ anTasks[t].pc = "failed"

\* C14 (as claimed): in production every failed analytics load reaches the
\* catch handler of the analyticsLogger() calls that wait for the module: the
\* promise they wait on is rejected, so that the failure is caught and logged;
\* and a failed logEvent is caught by the call that made it.
C14_AnalyticsFailuresCaught ==
  \A j \in DOMAIN logs :
    /\ (logs[j].pc = "awaitAnalytics" /\ AnalyticsLoadFailed(logs[j].wait))
         => promises[logs[j].wait].status = "rejected"
    /\ logs[j].pc \in {"logFailed", "caught"} => production

\* C15 (as claimed): when the load a consumer call waits for has failed, the
\* promise the call awaits is rejected, so that the call is rejected with the
\* failure instead of staying pending.
C15_FailuresRejectAwaitingCalls ==
  \A i \in DOMAIN cons :
    (cons[i].pc \in {"awaitApp", "awaitAuth"}
       /\ (AppLoadFailed(cons[i].wait) \/ AuthLoadFailed(cons[i].wait)))
      => promises[cons[i].wait].status = "rejected"

\* ------------------------------------------- getProvider / getCredential
MaxProviderCalls == 1        \* calls of the provider-kind functions

\* the Provider values of the switch, and one value outside of it
KnownProviders == {"google", "facebook", "github"}
ProviderKinds == KnownProviders \cup {"twitter"}
AccessTokens == {"tokenA", "tokenB"}

\* the functions that take a provider kind
SwitchFns == {"getProvider", "getCredential"}
WrapperFns == {"signInWithPopup", "signInWithRedirect",
               "signInWithAccessToken", "linkWithAccessToken"}
ProviderFns == SwitchFns \cup WrapperFns
SignInFns == {"signInWithPopup", "signInWithRedirect", "signInWithAccessToken"}

\* what the function (or the helper it calls) constructs
Makes(fn) ==
  IF fn \in {"getProvider", "signInWithPopup", "signInWithRedirect"}
  THEN "provider" ELSE "credential"

\* the access tokens a call of fn can carry
TokensOf(fn) == IF Makes(fn) = "credential" THEN AccessTokens ELSE {"none"}

KnownProvider_All(k) == TRUE

\* the `case` labels of the switch; everything else takes `default`
KnownProvider(k) == k \in KnownProviders

ProviderClass_GithubAsGoogle(k) ==
  IF k = "google" THEN "GoogleAuthProvider"
  ELSE IF k = "facebook" THEN "FacebookAuthProvider"
  ELSE "GoogleAuthProvider"

\* the class each `case` uses
ProviderClass(k) ==
  IF k = "google" THEN "GoogleAuthProvider"
  ELSE IF k = "facebook" THEN "FacebookAuthProvider"
  ELSE "GithubAuthProvider"

\* `new authModule.XAuthProvider()` / `authModule.XAuthProvider.credential(accessToken)`
Construct(k, made, tok) ==
  [class |-> ProviderClass(k), made |-> made,
   token |-> IF made = "credential" THEN tok ELSE "none"]

\* Error(`Unknown provider '${provider}'`)
UnknownProviderError(k) == <<"Unknown provider '", k, "'">>

\* a provider-kind call up to its suspension inside `await getAuthModule()`
ProviderCall(fn, k, tok) ==
  /\ CallsMade < MaxCalls
  /\ Len(cons) < MaxProviderCalls
  /\ LET r == GetAuthModule(LoaderState)
     IN /\ SetLoaderState(r.st)
        /\ cons' = Append(cons, [kind |-> fn, pc |-> r.pc, wait |-> r.wait,
                                 created |-> r.created, handle |-> 0,
                                 mode |-> "none", user |-> "none",
                                 subscribed |-> FALSE,
                                 pendingAtCall |-> PendingCalls,
                                 provider |-> k, token |-> tok,
                                 result |-> NoResult, error |-> <<>>])
  /\ UNCHANGED <<logs, production, userVars, karmaVars, credsVars>>

\* getProvider() / getCredential(): continuation of `await getAuthModule()`,
\* the switch on the provider kind
SwitchGotModule(i) ==
  /\ i \in DOMAIN cons
  /\ cons[i].kind \in SwitchFns
  /\ cons[i].pc = "awaitAuth"
  /\ Awaitable(cons[i].wait)
  /\ cons' = IF KnownProvider(cons[i].provider)
             THEN [cons EXCEPT ![i].pc = "done",
                               ![i].handle = promises[cons[i].wait].value,
                               ![i].result = Construct(cons[i].provider,
                                                       Makes(cons[i].kind), cons[i].token)]
             ELSE [cons EXCEPT ![i].pc = "rejected",
                               ![i].handle = promises[cons[i].wait].value,
                               ![i].error = UnknownProviderError(cons[i].provider)]
  /\ UNCHANGED <<loaderVars, logs, production, userVars, karmaVars, credsVars>>

\* a wrapper: continuation of its own `await getAuthModule()`, then the call
\* of getProvider() / getCredential() up to the helper's `await getAuthModule()`
WrapperGotModule(i) ==
  /\ i \in DOMAIN cons
  /\ cons[i].kind \in WrapperFns
  /\ cons[i].pc = "awaitAuth"
  /\ Awaitable(cons[i].wait)
  /\ LET r == GetAuthModule(LoaderState)
     IN /\ SetLoaderState(r.st)
        /\ cons' = [cons EXCEPT ![i].pc = "innerAwaitAuth", ![i].wait = r.wait,
                                ![i].handle = promises[cons[i].wait].value]
  /\ UNCHANGED <<logs, production, userVars, karmaVars, credsVars>>

\* the helper called by a wrapper: continuation of `await getAuthModule()`,
\* the switch on the provider kind
WrapperInnerSwitch(i) ==
  /\ i \in DOMAIN cons
  /\ cons[i].pc = "innerAwaitAuth"
  /\ Awaitable(cons[i].wait)
  /\ cons' = IF KnownProvider(cons[i].provider)
             THEN [cons EXCEPT ![i].pc = "awaitInner",
                               ![i].result = Construct(cons[i].provider,
                                                       Makes(cons[i].kind), cons[i].token)]
             ELSE [cons EXCEPT ![i].pc = "awaitInner",
                               ![i].error = UnknownProviderError(cons[i].provider)]
  /\ UNCHANGED <<loaderVars, logs, production, userVars, karmaVars, credsVars>>

\* the user the identity provider reports after a sign-in
SignedInUser == "user"

\* a wrapper: continuation of `await getProvider(provider)` /
\* `await getCredential(provider, accessToken)`: the helper's error rejects the
\* wrapper, its result is forwarded to the auth module
WrapperResume(i) ==
  /\ i \in DOMAIN cons
  /\ cons[i].pc = "awaitInner"
  /\ IF cons[i].error # <<>>
     THEN /\ cons' = [cons EXCEPT ![i].pc = "rejected"]
          /\ UNCHANGED currentUser
     ELSE /\ cons' = [cons EXCEPT ![i].pc = "done"]
          /\ currentUser' = IF cons[i].kind \in SignInFns THEN SignedInUser
                            ELSE currentUser
  /\ UNCHANGED <<loaderVars, logs, production, userLoaded, activeSubs,
                 karmaVars, credsVars>>

ProviderInit ==
  /\ CoreInit
  /\ ~production
  /\ currentUser = "null"
  /\ firebaseDB = NoDatabase
  /\ credsCall = IdleCredsCall

ProviderNext ==
  \/ MakeFirebaseActive
  \/ \E fn \in ProviderFns, k \in ProviderKinds :
       \E tok \in TokensOf(fn) : ProviderCall(fn, k, tok)
  \/ \E t \in 1..MaxCalls : AppImported(t)
  \/ \E t \in 1..MaxCalls : AuthLoadResume(t)
  \/ \E t \in 1..MaxCalls : AuthLoadImported(t)
  \/ \E i \in 1..MaxCalls : ConsumerResumeApp(i)
  \/ \E i \in 1..MaxCalls : SwitchGotModule(i)
  \/ \E i \in 1..MaxCalls : WrapperGotModule(i)
  \/ \E i \in 1..MaxCalls : WrapperInnerSwitch(i)
  \/ \E i \in 1..MaxCalls : WrapperResume(i)

ProviderSpec == ProviderInit /\ [][ProviderNext]_vars

\* the event loop runs every ready continuation of a provider-kind call
ProviderFairness ==
  /\ Fairness
  /\ WF_vars(\E i \in 1..MaxCalls : SwitchGotModule(i))
  /\ WF_vars(\E i \in 1..MaxCalls : WrapperGotModule(i))
  /\ WF_vars(\E i \in 1..MaxCalls : WrapperInnerSwitch(i))
  /\ WF_vars(\E i \in 1..MaxCalls : WrapperResume(i))

FairProviderSpec == ProviderInit /\ [][ProviderNext]_vars /\ ProviderFairness

ProviderCalls == {i \in DOMAIN cons : cons[i].kind \in ProviderFns}

UnknownKindCalls ==
  {i \in ProviderCalls : cons[i].provider \notin {"google", "facebook", "github"}}

\* C12: a getProvider() / getCredential() call that has returned was made with
\* google, facebook or github and holds the provider (resp. the credential
\* built from its access token) of the class of that kind and of no other, so
\* that the three results tell the kinds apart; a call with any other kind
\* never returns a value, constructs nothing, and when it has failed its error
\* is "Unknown provider '<kind>'"; no call with a known kind fails.
C12_ProviderPerKind ==
  \A i \in DOMAIN cons :
    cons[i].kind \in {"getProvider", "getCredential"} =>
      /\ cons[i].pc = "done" =>
           /\ cons[i].provider \in {"google", "facebook", "github"}
           /\ cons[i].result.class = "GoogleAuthProvider" <=> cons[i].provider = "google"
           /\ cons[i].result.class = "FacebookAuthProvider" <=> cons[i].provider = "facebook"
           /\ cons[i].result.class = "GithubAuthProvider" <=> cons[i].provider = "github"
           /\ cons[i].kind = "getProvider" =>
                cons[i].result.made = "provider" /\ cons[i].result.token = "none"
           /\ cons[i].kind = "getCredential" =>
                cons[i].result.made = "credential" /\ cons[i].result.token = cons[i].token
      /\ i \in UnknownKindCalls =>
           /\ cons[i].pc # "done"
           /\ cons[i].result = NoResult
           /\ cons[i].pc = "rejected" =>
                cons[i].error = <<"Unknown provider '", cons[i].provider, "'">>
      /\ cons[i].pc = "rejected" => i \in UnknownKindCalls

C12_Witness ==
  \E i \in DOMAIN cons :
    /\ cons[i].kind = "getCredential"
    /\ cons[i].provider = "github"
    /\ cons[i].token = "tokenB"
    /\ cons[i].pc = "done"
    /\ cons[i].result = [class |-> "GithubAuthProvider", made |-> "credential",
                         token |-> "tokenB"]

\* C16 (as claimed): a provider-kind call with an unknown kind is rejected
\* without waiting for a load: while it is not rejected, the promise it awaits
\* is already resolved.
C16_UnknownRejectsWithoutWaiting ==
  \A i \in UnknownKindCalls :
    cons[i].pc = "rejected" \/ promises[cons[i].wait].status = "resolved"

\* what holds of the unknown-kind calls in every state
UnknownKindHeld ==
  \A i \in UnknownKindCalls :
    /\ cons[i].pc # "done"
    /\ cons[i].result = NoResult
    /\ cons[i].pc = "rejected" =>
         /\ AuthSlotResolved
         /\ cons[i].error = <<"Unknown provider '", cons[i].provider, "'">>
    /\ ~AuthSlotResolved => cons[i].pc \in {"awaitApp", "awaitAuth"}

\* C16 (amended): a provider-kind call with an unknown kind constructs
\* nothing and never returns a value; it is held in getAuthModule() while the
\* app or the auth module is not loaded, in particular until activation, and
\* is rejected with the unknown-provider error only once the auth module is
\* loaded; when the auth module is loaded every such call gets rejected.
C16_UnknownRejectsOnceAuthLoaded ==
  /\ []UnknownKindHeld
  /\ []<>(AuthSlotResolved => \A i \in UnknownKindCalls : cons[i].pc = "rejected")

C16_Witness ==
  \E i \in UnknownKindCalls :
    /\ cons[i].kind \in WrapperFns
    /\ cons[i].created
    /\ cons[i].pc = "rejected"
    /\ cons[i].error = <<"Unknown provider '", "twitter", "'">>

====
